---- MODULE Spec2Model ----
(***************************************************************************)
(* Model of docx_pii.py: the leaf enumerator with its structural addresses *)
(* (get_text_nodes_and_paths), the redaction executor (redact_docx) and   *)
(* the detection run (find_entities_in_text, main).                        *)
(*                                                                         *)
(* A parsed document is a record [parent, tag, text] of functions over the *)
(* nodes 1..n.  Nodes are numbered in document order (preorder), node 1 is *)
(* the root element and parent[1] = 0 stands for the document node.  A tag *)
(* is a record [ns, local]; text[n] is el.text as a sequence of            *)
(* one-character strings (<<>> for None).                                  *)
(***************************************************************************)
EXTENDS Integers, Sequences, FiniteSets, TLC

VARIABLES
    xml,         \* the parsed tree, mutated in place by redact_docx
    orig,        \* the tree as it was parsed
    redactions,  \* the requests of the batch processed so far
    before,      \* the tree before the last processed request
    pc,          \* where the running function stands
    yielded,     \* the (elem, xpath_like) pairs the enumerator has yielded
    zin,         \* the entries of the input container, in infolist() order
    zout,        \* the entries written to the output container
    results,     \* main: the records collected so far
    unique,      \* main: the records that survive deduplication
    USE_SPACY,   \* main: whether spaCy and its model were loaded
    walk         \* redact_docx: the variables of the while loop

vars == <<xml, orig, redactions, before, pc, yielded, zin, zout, results, unique,
          USE_SPACY, walk>>

\* ---------------------------------------------------------------- bounds
MaxNodes == 4
MaxText == 2
MaxLeaves == 3
MaxBatch == 2
MaxParts == 2

\* ------------------------------------------------------------ vocabulary
WDocument == [ns |-> "w", local |-> "document"]
WP == [ns |-> "w", local |-> "p"]
WT == [ns |-> "w", local |-> "t"]
\* an element of another namespace whose local name is also "t" (m:t)
MT == [ns |-> "m", local |-> "t"]

\* the tag Word gives deleted text (w:delText)
WDelText == [ns |-> "w", local |-> "delText"]

\* replacement = "█" * span_len: the glyph is written "#" here
Blackout == "#"

\* An address is kept as the sequence of its segments: the fixed prefix
\* "/word/document.xml", then one segment [tag, idx] per "/w:tag[idx]"
DocPart == [tag |-> "/word/document.xml", idx |-> 0]

Letters == <<"a", "b", "c", "d", "e", "f">>

\* the while loop is not running and no request has been taken up; done
\* counts the requests taken up where the batch itself is not recorded
NoWalk == [done |-> 0, start_idx |-> 0, idx |-> 0, cur_offset |-> 0, remaining |-> 0]

Min(a, b) == IF a < b THEN a ELSE b
Max(a, b) == IF a > b THEN a ELSE b

\* ------------------------------------------------------------------ tree
Nodes(T) == DOMAIN T.parent

\* "for s in parent": the children of p, in document order (node order)
Children(T, p) == {c \in Nodes(T) : T.parent[c] = p}

RECURSIVE AncSelf(_, _)
AncSelf(par, n) == IF n = 0 THEN {} ELSE {n} \cup AncSelf(par, par[n])

\* xml.findall('.//w:t'): the descendants of the root that are w:t, in
\* document order (the root itself is not a descendant of itself)
TextNodeSet(T) == {n \in Nodes(T) : n # 1 /\ T.tag[n] = WT}

RECURSIVE SortedSeq(_)
SortedSeq(S) ==
    IF S = {} THEN <<>>
    ELSE LET m == CHOOSE x \in S : \A y \in S : x <= y
         IN <<m>> \o SortedSeq(S \ {m})

TextNodes(T) == SortedSeq(TextNodeSet(T))

\* list.index(x) as a 1-based position, 0 when absent (ValueError)
IndexOf(s, x) ==
    IF \E i \in 1..Len(s) : s[i] = x
    THEN CHOOSE i \in 1..Len(s) : s[i] = x /\ \A j \in 1..(i - 1) : s[j] # x
    ELSE 0

\* ------------------------------------------- get_text_nodes_and_paths
\* same = [s for s in parent if QName(s).localname == tag]; same.index(el)+1
SameTagIndex(T, el) ==
    Cardinality({s \in Children(T, T.parent[el]) :
                    s <= el /\ T.tag[s].local = T.tag[el].local})

\* the while loop of lines 42-48, already reversed: root-to-leaf steps,
\* the root element itself contributing no step
RECURSIVE PathParts(_, _)
PathParts(T, el) ==
    IF T.parent[el] = 0 THEN <<>>
    ELSE PathParts(T, T.parent[el])
            \o <<[tag |-> T.tag[el].local, idx |-> SameTagIndex(T, el)]>>

\* "/word/document.xml/" + "/".join(path_parts), kept as its segments
XPathLike(T, t) == <<DocPart>> \o PathParts(T, t)

\* -------------------------------------------------- address resolution
\* xml_path.replace('/word/document.xml', '')
LocalPath(xml_path) == SelectSeq(xml_path, LAMBDA s : s # DocPart)

\* one location step 'w:tag[idx]' (idx = 0: no predicate) from a node set
XPathStep(T, ctx, step) ==
    {c \in Nodes(T) :
        /\ T.parent[c] \in ctx
        /\ T.tag[c] = [ns |-> "w", local |-> step.tag]
        /\ \/ step.idx = 0
           \/ step.idx = Cardinality({s \in Children(T, T.parent[c]) :
                                         s <= c /\ T.tag[s] = T.tag[c]})}

\* xml.xpath(local_path): an absolute path, evaluated from the document
\* node (0), whose only child is the root element
RECURSIVE XPathFrom(_, _, _)
XPathFrom(T, ctx, steps) ==
    IF steps = <<>> THEN ctx
    ELSE XPathFrom(T, XPathStep(T, ctx, Head(steps)), Tail(steps))

XPath(T, local_path) == XPathFrom(T, {0}, local_path) \ {0}

\* lines 158-168: nodes[0] and its index in text_nodes; 0 when the request
\* is skipped (no node, or a node that is not in text_nodes)
StartNode(T, xml_path) ==
    LET nodes == XPath(T, LocalPath(xml_path))
    IN IF nodes = {} THEN 0
       ELSE CHOOSE n \in nodes : \A m \in nodes : n <= m

\* a lookup that falls back on the first text leaf when the address
\* resolves to no text leaf
StartIndexOrFirst(T, xml_path) ==
    IF StartNode(T, xml_path) # 0 /\ IndexOf(TextNodes(T), StartNode(T, xml_path)) # 0
    THEN IndexOf(TextNodes(T), StartNode(T, xml_path))
    ELSE IF TextNodes(T) # <<>> THEN 1 ELSE 0

StartIndex(T, xml_path) ==
    IF StartNode(T, xml_path) = 0 THEN 0
    ELSE IndexOf(TextNodes(T), StartNode(T, xml_path))

\* ------------------------------------------------------------ redaction
\* Python slices text[:j] and text[i:], negative indices counted from the end
PyIndex(i, n) == IF i < 0 THEN Max(0, i + n) ELSE Min(i, n)
SliceTo(s, j) == SubSeq(s, 1, PyIndex(j, Len(s)))
SliceFrom(s, i) == SubSeq(s, PyIndex(i, Len(s)) + 1, Len(s))

Glyphs(n) == [i \in 1..n |-> Blackout]

\* lines 180-186: the new text of one node
RedactText(text, start_pos, remaining) ==
    LET end_pos == Min(Len(text), start_pos + remaining)
        span_len == end_pos - start_pos
    IN SliceTo(text, start_pos) \o Glyphs(span_len) \o SliceFrom(text, end_pos)

\* the while loop without "remaining -= span_len"
RECURSIVE WalkKeepRemaining(_, _, _, _, _, _)
WalkKeepRemaining(txt, text_nodes, start_idx, idx, cur_offset, remaining) ==
    IF ~(remaining > 0 /\ idx <= Len(text_nodes)) THEN txt
    ELSE LET el == text_nodes[idx]
             text == txt[el]
             start_pos == IF idx = start_idx THEN cur_offset ELSE 0
         IN IF start_pos < Len(text)
            THEN WalkKeepRemaining(
                      [txt EXCEPT ![el] = RedactText(text, start_pos, remaining)],
                      text_nodes, start_idx, idx + 1, 0, remaining)
            ELSE WalkKeepRemaining(txt, text_nodes, start_idx, idx + 1, 0, remaining)

\* lines 174-193: the while loop, from text_nodes[idx] on
RECURSIVE Walk(_, _, _, _, _, _)
Walk(txt, text_nodes, start_idx, idx, cur_offset, remaining) ==
    IF ~(remaining > 0 /\ idx <= Len(text_nodes)) THEN txt
    ELSE LET el == text_nodes[idx]
             text == txt[el]
             start_pos == IF idx = start_idx THEN cur_offset ELSE 0
             end_pos == Min(Len(text), start_pos + remaining)
         IN IF start_pos < Len(text)
            THEN Walk([txt EXCEPT ![el] = RedactText(text, start_pos, remaining)],
                      text_nodes, start_idx, idx + 1, 0,
                      remaining - (end_pos - start_pos))
            ELSE Walk(txt, text_nodes, start_idx, idx + 1, 0, remaining)

\* the loop body with the offset clamped into the target leaf's text
RedactOneClamped(T, r) ==
    LET idx == StartIndex(T, r.xml_path)
        len == Len(T.text[TextNodes(T)[idx]])
    IN IF idx = 0 THEN T
       ELSE [T EXCEPT !.text = Walk(T.text, TextNodes(T), idx, idx,
                                    Max(0, Min(r.offset, len - 1)), r.length)]

\* the loop body marking the redacted leaf as deleted text
RedactOneRetag(T, r) ==
    LET idx == StartIndex(T, r.xml_path)
    IN IF idx = 0 THEN T
       ELSE [T EXCEPT !.text = Walk(T.text, TextNodes(T), idx, idx,
                                    r.offset, r.length),
                      !.tag[TextNodes(T)[idx]] = WDelText]

\* lines 152-193: the body of "for red in redactions" for one request
RedactOne(T, r) ==
    LET idx == StartIndex(T, r.xml_path)
    IN IF idx = 0 THEN T
       ELSE [T EXCEPT !.text = Walk(T.text, TextNodes(T), idx, idx,
                                    r.offset, r.length)]

\* ------------------------------------------------------------- inputs
\* parent arrays of the trees with n nodes numbered in document order
ParentArrays(n) ==
    {par \in [1..n -> 0..(n - 1)] :
        /\ par[1] = 0
        /\ \A i \in 2..n : par[i] \in AncSelf(par, i - 1)}

Texts == {SubSeq(Letters, 1, n) : n \in 0..MaxText}

\* every tree of at most MaxNodes elements under a w:document root, the
\* elements being paragraphs, text leaves and m:t elements (no text: the
\* enumerator reads none)
TreeDocs ==
    UNION {{[parent |-> par, tag |-> tg, text |-> [i \in 1..n |-> <<>>]] :
                par \in ParentArrays(n),
                tg \in {f \in [1..n -> {WDocument, WP, WT, MT}] :
                           \A i \in 1..n : (f[i] = WDocument) <=> (i = 1)}} :
           n \in 1..MaxNodes}

\* documents rooted at w:document whose text leaves sit two to a
\* paragraph: document/(p/(t, t), p/(t, t), ...), n leaves in all, every
\* leaf with a text of its own
ParNode(q) == 3 * q - 1
LeafNode(j) == ParNode((j + 1) \div 2) + 2 - (j % 2)

WordDoc(n, lens) ==
    LET size == IF n = 0 THEN 1 ELSE LeafNode(n)
        pars == {ParNode(q) : q \in 1..((n + 1) \div 2)}
    IN [parent |-> [i \in 1..size |->
                        IF i = 1 THEN 0
                        ELSE IF i \in pars THEN 1
                        ELSE ParNode((i + 1) \div 3)],
        tag |-> [i \in 1..size |->
                        IF i = 1 THEN WDocument
                        ELSE IF i \in pars THEN WP ELSE WT],
        text |-> [i \in 1..size |->
                        IF i = 1 \/ i \in pars THEN <<>>
                        ELSE SubSeq(Letters, 1,
                                    lens[CHOOSE j \in 1..n : LeafNode(j) = i])]]

WordDocs ==
    UNION {{WordDoc(n, lens) : lens \in [1..n -> 0..MaxText]} : n \in 0..MaxLeaves}

\* the absolute path of a node, the root element's step included
RECURSIVE RootedSteps(_, _)
RootedSteps(T, el) ==
    IF el = 0 THEN <<>>
    ELSE RootedSteps(T, T.parent[el])
            \o <<[tag |-> T.tag[el].local,
                  idx |-> Cardinality({s \in Children(T, T.parent[el]) :
                                          s <= el /\ T.tag[s] = T.tag[el]})]>>

RootedPath(T, el) == <<DocPart>> \o RootedSteps(T, el)

Offsets == (0 - 1)..(MaxText + 1)
Lengths == (0 - 1)..(MaxText + 1)

Request(p, o, l) == [xml_path |-> p, offset |-> o, length |-> l]

\* the requests a caller may put in a batch for document T: every offset
\* and length at every text leaf, the addresses the enumerator emits, and
\* the paths of the nodes that are no text leaves
Requests(T) ==
    {Request(RootedPath(T, t), o, l) : t \in TextNodeSet(T), o \in Offsets, l \in Lengths}
    \cup {Request(XPathLike(T, t), 0, 1) : t \in TextNodeSet(T)}
    \cup {Request(RootedPath(T, n), 0, 1) : n \in Nodes(T) \ TextNodeSet(T)}

\* ------------------------------------------------- redact_docx, a batch
\* lines 152-193: "for red in redactions" over a whole list
RECURSIVE RedactBatch(_, _)
RedactBatch(T, reds) ==
    IF reds = <<>> THEN T
    ELSE RedactBatch(RedactOne(T, Head(reds)), Tail(reds))

\* ------------------------------------------------------- the container
\* the name of the content part (lines 87, 146, 199)
DocumentXml == "word/document.xml"

\* the names of the other parts a container may hold
PartNames == <<"[Content_Types].xml", "_rels/.rels", "word/styles.xml",
               "docProps/app.xml", "word/settings.xml">>

\* the bytes of an XML part: whether they begin with an XML declaration,
\* and the tree they spell out
XmlBytes(decl, T) == [decl |-> decl, tree |-> T]

\* etree.fromstring(xml_bytes) (line 147)
EtreeFromString(data) == data.tree

\* etree.tostring(xml, xml_declaration=True, encoding='UTF-8') (line 195)
EtreeToString(T) == XmlBytes(TRUE, T)

\* zin.read(name): the content of the entry of that name, the last one
\* of that name if there are several
ZipRead(z, name) ==
    z[CHOOSE i \in 1..Len(z) :
         /\ z[i].filename = name
         /\ \A j \in (i + 1)..Len(z) : z[j].filename # name].data

\* the output container with the content part left as it was read
WriteOutUnchanged(z, updated_xml) ==
    [i \in 1..Len(z) |->
        [filename |-> z[i].filename, data |-> ZipRead(z, z[i].filename)]]

\* lines 196-202: "for item in zin.infolist()", one zout.writestr each
WriteOut(z, updated_xml) ==
    [i \in 1..Len(z) |->
        [filename |-> z[i].filename,
         data |-> IF z[i].filename = DocumentXml THEN updated_xml
                  ELSE ZipRead(z, z[i].filename)]]

\* the content of another part: each is an XML part of a single element
\* of its own, never parsed by redact_docx
PartBytes(j) ==
    XmlBytes(TRUE, [parent |-> <<0>>,
                    tag |-> <<[ns |-> "", local |-> PartNames[j]]>>,
                    text |-> <<<<>>>>])

\* the containers with the content part T at any place among the first k
\* other parts, k up to MaxParts; part names are unique within a package
Containers(T) ==
    UNION {{[i \in 1..(k + 1) |->
                IF i = at THEN [filename |-> DocumentXml, data |-> XmlBytes(decl, T)]
                ELSE LET j == IF i < at THEN i ELSE i - 1
                     IN [filename |-> PartNames[j], data |-> PartBytes(j)]] :
              at \in 1..(k + 1), decl \in BOOLEAN} :
           k \in 0..MaxParts}

Init ==
    /\ xml \in WordDocs
    /\ orig = xml
    /\ redactions = <<>>
    /\ before = xml
    /\ pc = "redact"
    /\ yielded = <<>>
    /\ zin = <<[filename |-> DocumentXml, data |-> XmlBytes(TRUE, xml)]>>
    /\ zout = <<>>
    /\ results = <<>>
    /\ unique = <<>>
    /\ USE_SPACY = FALSE
    /\ walk = NoWalk

\* one iteration of "for red in redactions"
Redact ==
    /\ pc = "redact"
    /\ Len(redactions) < MaxBatch
    /\ \E r \in Requests(xml) :
          /\ redactions' = Append(redactions, r)
          /\ xml' = RedactOne(xml, r)
    /\ before' = xml
    /\ UNCHANGED <<orig, pc, yielded, zin, zout, results, unique, USE_SPACY, walk>>

\* lines 195-204: the batch is exhausted, the tree is serialized and the
\* output container written
Save ==
    /\ pc = "redact"
    /\ zout' = WriteOut(zin, EtreeToString(xml))
    /\ pc' = "saved"
    /\ UNCHANGED <<xml, orig, redactions, before, yielded, zin, results, unique, USE_SPACY, walk>>

Next == Redact \/ Save

Spec == Init /\ [][Next]_vars

\* redact_docx on documents of at most one text leaf, in every container
InitSave ==
    /\ zin \in UNION {Containers(T) : T \in {d \in WordDocs : Len(TextNodes(d)) <= 1}}
    /\ xml = EtreeFromString(ZipRead(zin, DocumentXml))
    /\ orig = xml
    /\ redactions = <<>>
    /\ before = xml
    /\ pc = "redact"
    /\ yielded = <<>>
    /\ zout = <<>>
    /\ results = <<>>
    /\ unique = <<>>
    /\ USE_SPACY = FALSE
    /\ walk = NoWalk

SpecSave == InitSave /\ [][Next]_vars

\* ------------------------------------ redact_docx, the walk step by step
InitWalk ==
    /\ xml \in WordDocs
    /\ orig = xml
    /\ redactions = <<>>
    /\ before = xml
    /\ pc = "redact"
    /\ yielded = <<>>
    /\ zin = <<[filename |-> DocumentXml, data |-> XmlBytes(TRUE, xml)]>>
    /\ zout = <<>>
    /\ results = <<>>
    /\ unique = <<>>
    /\ USE_SPACY = FALSE
    /\ walk = NoWalk

\* lines 152-171: the next request of the batch is taken up; it is
\* skipped when its address resolves to no text leaf, else the walk
\* starts at the target leaf.  The batch is not recorded here.
Begin ==
    /\ pc = "redact"
    /\ walk.done < MaxBatch
    /\ \E red \in Requests(xml) :
          IF StartIndex(xml, red.xml_path) = 0
          THEN pc' = "redact" /\ walk' = [NoWalk EXCEPT !.done = walk.done + 1]
          ELSE /\ pc' = "while"
               /\ walk' = [done |-> walk.done + 1,
                           start_idx |-> StartIndex(xml, red.xml_path),
                           idx |-> StartIndex(xml, red.xml_path),
                           cur_offset |-> red.offset,
                           remaining |-> red.length]
    /\ UNCHANGED <<xml, orig, redactions, before, yielded, zin, zout, results, unique,
                   USE_SPACY>>

\* an iteration of the while loop that does not go on to the next leaf
WalkStepStays ==
    /\ pc = "while"
    /\ walk.remaining > 0 /\ walk.idx <= Len(TextNodes(xml))
    /\ LET el == TextNodes(xml)[walk.idx]
           text == xml.text[el]
           start_pos == IF walk.idx = walk.start_idx THEN walk.cur_offset ELSE 0
           end_pos == Min(Len(text), start_pos + walk.remaining)
       IN IF start_pos < Len(text)
          THEN /\ xml' = [xml EXCEPT !.text[el] = RedactText(text, start_pos, walk.remaining)]
               /\ walk' = [walk EXCEPT !.remaining = @ - (end_pos - start_pos),
                                       !.cur_offset = 0]
          ELSE /\ xml' = xml
               /\ walk' = [walk EXCEPT !.cur_offset = 0]
    /\ UNCHANGED <<orig, redactions, before, pc, yielded, zin, zout, results, unique,
                   USE_SPACY>>

\* lines 174-193: one iteration of the while loop
WalkStep ==
    /\ pc = "while"
    /\ walk.remaining > 0 /\ walk.idx <= Len(TextNodes(xml))
    /\ LET el == TextNodes(xml)[walk.idx]
           text == xml.text[el]
           start_pos == IF walk.idx = walk.start_idx THEN walk.cur_offset ELSE 0
           end_pos == Min(Len(text), start_pos + walk.remaining)
       IN IF start_pos < Len(text)
          THEN /\ xml' = [xml EXCEPT !.text[el] = RedactText(text, start_pos, walk.remaining)]
               /\ walk' = [walk EXCEPT !.remaining = @ - (end_pos - start_pos),
                                       !.cur_offset = 0,
                                       !.idx = @ + 1]
          ELSE /\ xml' = xml
               /\ walk' = [walk EXCEPT !.cur_offset = 0, !.idx = @ + 1]
    /\ UNCHANGED <<orig, redactions, before, pc, yielded, zin, zout, results, unique,
                   USE_SPACY>>

\* line 173: the loop condition fails, the for loop goes on
WalkEnd ==
    /\ pc = "while"
    /\ ~(walk.remaining > 0 /\ walk.idx <= Len(TextNodes(xml)))
    /\ pc' = "redact"
    /\ walk' = [NoWalk EXCEPT !.done = walk.done]
    /\ UNCHANGED <<xml, orig, redactions, before, yielded, zin, zout, results, unique,
                   USE_SPACY>>

NextWalk == Begin \/ WalkStep \/ WalkEnd \/ Save

SpecWalk == InitWalk /\ [][NextWalk]_vars

\* the interpreter runs the function on: an iteration of the while loop
\* that can be made is made and a loop whose condition fails is left, and
\* the output is written once no more request is taken up
SpecWalkFair == SpecWalk /\ WF_vars(WalkStep \/ WalkEnd) /\ WF_vars(Save)

\* ------------------------------------ get_text_nodes_and_paths, a walk
InitEnum ==
    /\ xml \in TreeDocs
    /\ orig = xml
    /\ redactions = <<>>
    /\ before = xml
    /\ pc = "enum"
    /\ yielded = <<>>
    /\ zin = <<[filename |-> DocumentXml, data |-> XmlBytes(TRUE, xml)]>>
    /\ zout = <<>>
    /\ results = <<>>
    /\ unique = <<>>
    /\ USE_SPACY = FALSE
    /\ walk = NoWalk

\* the generator yields the next (elem, xpath_like)
Yield ==
    /\ pc = "enum"
    /\ Len(yielded) < Len(TextNodes(xml))
    /\ LET t == TextNodes(xml)[Len(yielded) + 1]
       IN yielded' = Append(yielded, [elem |-> t, xml_path |-> XPathLike(xml, t)])
    /\ UNCHANGED <<xml, orig, redactions, before, pc, zin, zout, results, unique, USE_SPACY, walk>>

\* the generator is exhausted
Exhausted ==
    /\ pc = "enum"
    /\ Len(yielded) = Len(TextNodes(xml))
    /\ pc' = "enumerated"
    /\ UNCHANGED <<xml, orig, redactions, before, yielded, zin, zout, results, unique, USE_SPACY, walk>>

NextEnum == Yield \/ Exhausted

SpecEnum == InitEnum /\ [][NextEnum]_vars

\* =====================================================================
\* Properties
\* =====================================================================
\* the last processed request, the leaf sequence, and the position in it
\* of the leaf the request's address resolved to (0: the request was skipped)
Acted == Len(redactions) > 0
LastRed == redactions[Len(redactions)]
Leaves == TextNodes(before)
TargetIdx == StartIndex(before, LastRed.xml_path)
Resolved == Acted /\ TargetIdx # 0
Target == Leaves[TargetIdx]

\* 0-based position, in the logical stream that starts at the first
\* character of leaf number from, of the first character of leaf number j
RECURSIVE StreamBase(_, _, _)
StreamBase(T, from, j) ==
    IF j <= from THEN 0
    ELSE StreamBase(T, from, j - 1) + Len(T.text[TextNodes(T)[j - 1]])

\* the stream position of character p (1-based) of leaf number j
StreamPos(j, p) == StreamBase(before, TargetIdx, j) + p - 1

InSpan(pos, r) == r.offset <= pos /\ pos < r.offset + r.length

\* every character of leaf number j outside the span is as it was
OutsideKept(j) ==
    LET n == Leaves[j]
    IN /\ Len(xml.text[n]) = Len(before.text[n])
       /\ \A p \in 1..Len(before.text[n]) :
             ~InSpan(StreamPos(j, p), LastRed) => xml.text[n][p] = before.text[n][p]

\* every character of leaf number j inside the span is the blackout glyph
InsideBlanked(j) ==
    LET n == Leaves[j]
    IN /\ Len(xml.text[n]) = Len(before.text[n])
       /\ \A p \in 1..Len(before.text[n]) :
             InSpan(StreamPos(j, p), LastRed) => xml.text[n][p] = Blackout

EarlierKept ==
    \A n \in Nodes(before) :
        (n \notin TextNodeSet(before) \/ IndexOf(Leaves, n) < TargetIdx)
            => xml.text[n] = before.text[n]

\* C1: every address the enumerator yields resolves, the way redact_docx
\* resolves it, to the leaf it was yielded for
RoundTrip ==
    \A i \in 1..Len(yielded) :
        StartNode(xml, yielded[i].xml_path) = yielded[i].elem

\* C2: a request that resolves to a leaf changes no character outside the
\* positions [offset, offset+length) of the stream that starts at the
\* target leaf, and changes no leaf before the target leaf
OnlySpanChanges ==
    Resolved =>
        /\ EarlierKept
        /\ \A j \in TargetIdx..Len(Leaves) : OutsideKept(j)

\* C3: after a request that resolves to a leaf, with 0 <= offset <= the
\* length of the target leaf's text, every character at the stream
\* positions [offset, offset+length) is the blackout glyph, in the target
\* leaf and on into the following leaves, and the rest is untouched
SpanBlanked ==
    (Resolved /\ 0 <= LastRed.offset /\ LastRed.offset <= Len(before.text[Target])) =>
        /\ EarlierKept
        /\ \A j \in TargetIdx..Len(Leaves) : InsideBlanked(j) /\ OutsideKept(j)

\* a request at offset 1 of a two-character leaf, of length 2, blanked the
\* leaf's last character and the first character of the next leaf only
SpanBlankedWitness ==
    /\ Resolved
    /\ LastRed.offset = 1 /\ LastRed.length = 2
    /\ TargetIdx < Len(Leaves)
    /\ before.text[Target] = <<"a", "b">>
    /\ before.text[Leaves[TargetIdx + 1]] = <<"a", "b">>
    /\ xml.text[Target] = <<"a", Blackout>>
    /\ xml.text[Leaves[TargetIdx + 1]] = <<Blackout, "b">>

\* C4: whatever offset and length a request carries, every leaf has as
\* many characters after the request as before it
LengthPreserved ==
    Acted => \A n \in Nodes(before) : Len(xml.text[n]) = Len(before.text[n])

\* the target leaf has no character at the request's offset
PastEnd == Resolved /\ LastRed.offset >= Len(before.text[Target])

Following == StreamBase(before, TargetIdx, Len(Leaves) + 1) - Len(before.text[Target])

NoLeafAt(T, xml_path) ==
    StartNode(T, xml_path) = 0 \/ StartNode(T, xml_path) \notin TextNodeSet(T)

\* the batch without the requests whose address finds no text leaf
WithoutSkipped(T, reds) == SelectSeq(reds, LAMBDA r : ~NoLeafAt(T, r.xml_path))

\* C6: a request whose address resolves to no node, or to a node that is
\* no text leaf, changes nothing, and the document is what the batch
\* without such requests makes of it
SkippedAbsent ==
    /\ (Acted /\ NoLeafAt(before, LastRed.xml_path)) => xml = before
    /\ xml = RedactBatch(orig, WithoutSkipped(orig, redactions))

\* a skipped request came second, after a request that blanked something
SkippedWitness ==
    /\ Len(redactions) = 2
    /\ NoLeafAt(before, LastRed.xml_path)
    /\ before # orig
    /\ xml = before

Perms(s) ==
    {[i \in 1..Len(s) |-> s[f[i]]] :
        f \in {g \in [1..Len(s) -> 1..Len(s)] :
                  \A i, j \in 1..Len(s) : g[i] = g[j] => i = j}}

\* C7: the final document is the same for every order of the batch
OrderIndependent ==
    pc = "saved" => \A reds \in Perms(redactions) : RedactBatch(orig, reds) = xml

\* C8: the same request applied a second time changes no character
Idempotent ==
    (Len(redactions) >= 2 /\ redactions[Len(redactions) - 1] = LastRed)
        => xml = before

\* the text left from the request's position to the end of the last leaf
StreamLen == StreamBase(before, TargetIdx, Len(Leaves) + 1)
Remaining == Max(0, StreamLen - Max(0, LastRed.offset))

\* C9: a request longer than the text left from its position blanks every
\* character from that position to the end of the document
ExhaustedBlanksToEnd ==
    (Resolved /\ LastRed.length > Remaining) =>
        \A j \in TargetIdx..Len(Leaves) :
            LET n == Leaves[j]
            IN \A p \in 1..Len(xml.text[n]) :
                    StreamPos(j, p) >= LastRed.offset => xml.text[n][p] = Blackout

\* C10: a batch leaves the tag structure alone: the same nodes with the
\* same tags under the same parents, hence the same leaves in the same
\* order, each with the address it had
StructureKept ==
    /\ xml.parent = orig.parent
    /\ xml.tag = orig.tag
    /\ TextNodes(xml) = TextNodes(orig)
    /\ \A t \in TextNodeSet(orig) : XPathLike(xml, t) = XPathLike(orig, t)

\* a batch of two requests that blanked text has been written out
StructureKeptWitness ==
    /\ pc = "saved"
    /\ Len(redactions) = 2
    /\ xml.text # before.text
    /\ before.text # orig.text

LowerAZ == <<"a", "b", "c", "d", "e", "f", "g", "h", "i", "j", "k", "l", "m",
             "n", "o", "p", "q", "r", "s", "t", "u", "v", "w", "x", "y", "z">>
UpperAZ == <<"A", "B", "C", "D", "E", "F", "G", "H", "I", "J", "K", "L", "M",
             "N", "O", "P", "Q", "R", "S", "T", "U", "V", "W", "X", "Y", "Z">>
LowerUml == <<"a_uml", "o_uml", "u_uml">>
UpperUml == <<"A_uml", "O_uml", "U_uml">>

Range(f) == {f[i] : i \in DOMAIN f}

Lower == Range(LowerAZ)
Upper == Range(UpperAZ)
\* \d
Digit == {"0", "1", "2", "3", "4", "5", "6", "7", "8", "9"}
\* \s
Space == {" ", "\t", "\n"}
\* \w, the characters on the word side of \b
Word == Lower \cup Upper \cup Digit \cup {"_"}
            \cup Range(LowerUml) \cup Range(UpperUml) \cup {"eszett"}

\* the two cases of a letter, as re.I matches a literal letter
BothCases(c) ==
    IF \E i \in 1..26 : LowerAZ[i] = c \/ UpperAZ[i] = c
    THEN LET i == CHOOSE i \in 1..26 : LowerAZ[i] = c \/ UpperAZ[i] = c
         IN {LowerAZ[i], UpperAZ[i]}
    ELSE IF \E i \in 1..3 : LowerUml[i] = c \/ UpperUml[i] = c
    THEN LET i == CHOOSE i \in 1..3 : LowerUml[i] = c \/ UpperUml[i] = c
         IN {LowerUml[i], UpperUml[i]}
    ELSE {c}

\* --------------------------------------------------- regular expressions
\* A pattern is a tree of nodes [k, s, a, lo, hi]:
\*   "set"  one character out of the set s
\*   "wb"   \b
\*   "cat"  the patterns of a, one after another
\*   "alt"  the patterns of a, the first that lets the match go on
\*   "rep"  a[1] repeated lo to hi times, greedily (hi = -1: no limit)
Ch(S) == [k |-> "set", s |-> S, a |-> <<>>, lo |-> 0, hi |-> 0]
WB == [k |-> "wb", s |-> {}, a |-> <<>>, lo |-> 0, hi |-> 0]
Cat(a) == [k |-> "cat", s |-> {}, a |-> a, lo |-> 0, hi |-> 0]
Alt(a) == [k |-> "alt", s |-> {}, a |-> a, lo |-> 0, hi |-> 0]
Rep(r, lo, hi) == [k |-> "rep", s |-> {}, a |-> <<r>>, lo |-> lo, hi |-> hi]
Opt(r) == Rep(r, 0, 1)
\* a literal word under re.I
LitI(w) == Cat([i \in 1..Len(w) |-> Ch(BothCases(w[i]))])

\* \b holds at position i (between text[i] and text[i+1], counted from 0)
AtWordBoundary(text, i) ==
    LET left == i >= 1 /\ text[i] \in Word
        right == i < Len(text) /\ text[i + 1] \in Word
    IN left # right

\* a repeated character set: the longest run is tried first, then the
\* shorter ones down to lo characters
EndsRun(re, text, i) ==
    LET S == re.a[1].s
        run == CHOOSE n \in 0..(Len(text) - i) :
                  /\ \A j \in 1..n : text[i + j] \in S
                  /\ n < Len(text) - i => text[i + n + 1] \notin S
        top == IF re.hi >= 0 /\ re.hi < run THEN re.hi ELSE run
    IN IF top < re.lo THEN <<>>
       ELSE [j \in 1..(top - re.lo + 1) |-> i + top - j + 1]

\* Ends(re, text, i): the positions at which a match of re that starts at
\* position i can end, in the order in which the backtracking matcher
\* tries them (a position may come more than once)
RECURSIVE Ends(_, _, _), EndsCat(_, _, _, _), EndsCatEach(_, _, _, _, _),
          EndsAlt(_, _, _, _), EndsRep(_, _, _, _), EndsRepEach(_, _, _, _, _)

Ends(re, text, i) ==
    CASE re.k = "set" -> IF i < Len(text) /\ text[i + 1] \in re.s THEN <<i + 1>> ELSE <<>>
      [] re.k = "wb" -> IF AtWordBoundary(text, i) THEN <<i>> ELSE <<>>
      [] re.k = "cat" -> EndsCat(re.a, 1, text, i)
      [] re.k = "alt" -> EndsAlt(re.a, 1, text, i)
      [] re.k = "rep" -> IF re.a[1].k = "set" THEN EndsRun(re, text, i)
                         ELSE EndsRep(re, text, i, 0)

\* the patterns a[k..] matched from position i
EndsCat(a, k, text, i) ==
    IF k > Len(a) THEN <<i>>
    ELSE EndsCatEach(a, k, text, Ends(a[k], text, i), 1)

EndsCatEach(a, k, text, es, j) ==
    IF j > Len(es) THEN <<>>
    ELSE EndsCat(a, k + 1, text, es[j]) \o EndsCatEach(a, k, text, es, j + 1)

EndsAlt(a, k, text, i) ==
    IF k > Len(a) THEN <<>>
    ELSE Ends(a[k], text, i) \o EndsAlt(a, k + 1, text, i)

\* n repetitions are done: one more is tried before stopping here
EndsRep(re, text, i, n) ==
    LET more == IF re.hi >= 0 /\ n >= re.hi THEN <<>>
                ELSE EndsRepEach(re, text,
                                 SelectSeq(Ends(re.a[1], text, i), LAMBDA e : e > i),
                                 1, n + 1)
        stop == IF n >= re.lo THEN <<i>> ELSE <<>>
    IN more \o stop

EndsRepEach(re, text, es, j, n) ==
    IF j > Len(es) THEN <<>>
    ELSE EndsRep(re, text, es[j], n) \o EndsRepEach(re, text, es, j + 1, n)

\* pattern.match(text): a match that starts at position 0
ReMatch(re, text) == Ends(re, text, 0) # <<>>

\* pattern.finditer(text): the matches [start, end) from left to right,
\* each found at the first position, from where the last one ended, from
\* which the pattern matches, and ending where the matcher's first
\* success ends
RECURSIVE FindIterFrom(_, _, _, _)
FindIterFrom(re, text, starts, i) ==
    IF \A s \in starts : s < i THEN <<>>
    ELSE LET s == CHOOSE s \in starts : s >= i /\ \A u \in starts : u >= i => s <= u
             e == Ends(re, text, s)[1]
         IN <<[start |-> s, end |-> e]>>
               \o FindIterFrom(re, text, starts, IF e > s THEN e ELSE s + 1)

FindIter(re, text) ==
    FindIterFrom(re, text, {i \in 0..Len(text) : Ends(re, text, i) # <<>>}, 0)

\* m.group(0), and text[a:b] for 0 <= a <= b <= len(text)
Slice(text, a, b) == SubSeq(text, a + 1, b)

\* ------------------------------------------------------------ patterns
\* the email pattern with a top-level part that may hold blanks
RE_EMAIL_BLANKS ==
    Cat(<<Rep(Ch(Lower \cup Upper \cup Digit \cup {"_", ".", "+", "-"}), 1, -1),
          Ch({"@"}),
          Rep(Ch(Lower \cup Upper \cup Digit \cup {"-"}), 1, -1),
          Ch({"."}),
          Rep(Ch(Lower \cup Upper \cup Digit \cup {"-", ".", " "}), 1, -1)>>)

\* line 27: [a-zA-Z0-9_.+-]+@[a-zA-Z0-9-]+\.[a-zA-Z0-9-.]+
RE_EMAIL ==
    Cat(<<Rep(Ch(Lower \cup Upper \cup Digit \cup {"_", ".", "+", "-"}), 1, -1),
          Ch({"@"}),
          Rep(Ch(Lower \cup Upper \cup Digit \cup {"-"}), 1, -1),
          Ch({"."}),
          Rep(Ch(Lower \cup Upper \cup Digit \cup {"-", "."}), 1, -1)>>)

\* [\s\-\/\.] in line 28
PhoneSep == Space \cup {"-", "/", "."}

\* line 28: (\+?\d{1,3}[\s\-\u2011]?)?(?:\(?\d{2,4}\)?[\s\-\/\.]?)?
\*          \d{2,4}[\s\-\/\.]?\d{2,4}(?:[\s\-\/\.]?\d{1,4})?
RE_PHONE ==
    Cat(<<Opt(Cat(<<Opt(Ch({"+"})), Rep(Ch(Digit), 1, 3),
                    Opt(Ch(Space \cup {"-", "nbhyphen"}))>>)),
          Opt(Cat(<<Opt(Ch({"("})), Rep(Ch(Digit), 2, 4), Opt(Ch({")"})),
                    Opt(Ch(PhoneSep))>>)),
          Rep(Ch(Digit), 2, 4),
          Opt(Ch(PhoneSep)),
          Rep(Ch(Digit), 2, 4),
          Opt(Cat(<<Opt(Ch(PhoneSep)), Rep(Ch(Digit), 1, 4)>>))>>)

\* line 29: \b[A-Z]{2}[0-9]{2}[A-Z0-9]{4,30}\b
RE_IBAN ==
    Cat(<<WB, Rep(Ch(Upper), 2, 2), Rep(Ch(Digit), 2, 2),
          Rep(Ch(Upper \cup Digit), 4, 30), WB>>)

\* [\/\-.] in line 30
DateSep == {"/", "-", "."}

Months ==
    <<<<"J", "a", "n">>, <<"F", "e", "b">>, <<"M", "a", "r">>,
      <<"A", "p", "r">>, <<"M", "a", "y">>, <<"J", "u", "n">>,
      <<"J", "u", "l">>, <<"A", "u", "g">>, <<"S", "e", "p">>,
      <<"O", "c", "t">>, <<"N", "o", "v">>, <<"D", "e", "c">>>>

\* line 30, under re.I:
\* \b(?:\d{1,2}[\/\-.]\d{1,2}[\/\-.]\d{2,4}|\d{4}[\/\-.]\d{1,2}[\/\-.]\d{1,2}
\*      |(?:Jan|...|Dec)[a-z]*\.?\s+\d{1,2},?\s+\d{4})\b
RE_DATE ==
    Cat(<<WB,
          Alt(<<Cat(<<Rep(Ch(Digit), 1, 2), Ch(DateSep), Rep(Ch(Digit), 1, 2),
                      Ch(DateSep), Rep(Ch(Digit), 2, 4)>>),
                Cat(<<Rep(Ch(Digit), 4, 4), Ch(DateSep), Rep(Ch(Digit), 1, 2),
                      Ch(DateSep), Rep(Ch(Digit), 1, 2)>>),
                Cat(<<Alt([i \in 1..Len(Months) |-> LitI(Months[i])]),
                      Rep(Ch(Lower \cup Upper), 0, -1), Opt(Ch({"."})),
                      Rep(Ch(Space), 1, -1), Rep(Ch(Digit), 1, 2),
                      Opt(Ch({","})), Rep(Ch(Space), 1, -1),
                      Rep(Ch(Digit), 4, 4)>>)>>),
          WB>>)

AddressWords ==
    <<<<"s", "t", "r", "e", "e", "t">>, <<"s", "t", ".">>,
      <<"r", "o", "a", "d">>, <<"r", "d", ".">>, <<"a", "v", "e">>,
      <<"a", "v", "e", "n", "u", "e">>, <<"b", "l", "v", "d">>,
      <<"l", "a", "n", "e">>, <<"l", "n", ".">>, <<"w", "e", "g">>,
      <<"s", "t", "r", "a", "s", "s", "e">>,
      <<"s", "t", "r", "a", "eszett", "e">>,
      <<"p", "l", "a", "t", "z">>, <<"z", "i", "p">>,
      <<"p", "o", "s", "t", "a", "l">>,
      <<"p", "o", "s", "t", "f", "a", "c", "h">>, <<"p", "f">>>>

\* line 31, under re.I: \b(street|st\.|road|rd\.|ave|avenue|blvd|lane|ln\.
\*      |weg|strasse|stra<eszett>e|platz|zip|postal|postfach|pf)\b
RE_ADDRESS_HINT ==
    Cat(<<WB, Alt([i \in 1..Len(AddressWords) |-> LitI(AddressWords[i])]), WB>>)

\* line 80: [A-Z] with the upper-case umlauts, [a-z] with the lower-case
\* umlauts and eszett
NameUpper == Upper \cup Range(UpperUml)
NameLower == Lower \cup Range(LowerUml) \cup {"eszett"}

\* line 80: \b(U L+(?:\s+U L+){1,3})\b, U and L the two sets above
RE_NAME ==
    Cat(<<WB, Ch(NameUpper), Rep(Ch(NameLower), 1, -1),
          Rep(Cat(<<Rep(Ch(Space), 1, -1), Ch(NameUpper),
                    Rep(Ch(NameLower), 1, -1)>>), 1, 3),
          WB>>)

\* ------------------------------------------------- find_entities_in_text
\* line 66: 6 <= len(digits) <= 15
PhoneDigitsMin == 6
PhoneDigitsMax == 15
\* lines 69-70: m.start() - 30, m.end() + 60
WindowBefore == 30
WindowAfter == 60

\* a candidate (label, text, start, end) of the list "found"
Candidate(label, text, start, end) ==
    [label |-> label, text |-> text, start |-> start, end |-> end]

\* (label, m.group(0), m.start(), m.end()) for every m of pattern.finditer
MatchCandidates(label, re, text) ==
    LET ms == FindIter(re, text)
    IN [i \in 1..Len(ms) |->
           Candidate(label, Slice(text, ms[i].start, ms[i].end),
                     ms[i].start, ms[i].end)]

\* line 65: re.sub(r'\D', '', s)
DigitsOf(s) == SelectSeq(s, LAMBDA c : c \in Digit)

\* the phone filter without its lower limit
PhoneAcceptedNoMin(s) ==
    /\ Len(DigitsOf(s)) <= PhoneDigitsMax
    /\ ~ReMatch(RE_EMAIL, s)

\* line 66: the filter on a phone candidate s
PhoneAccepted(s) ==
    /\ PhoneDigitsMin <= Len(DigitsOf(s))
    /\ Len(DigitsOf(s)) <= PhoneDigitsMax
    /\ ~ReMatch(RE_EMAIL, s)

\* str.strip(): leading and trailing whitespace removed
RECURSIVE LStrip(_), RStrip(_)
LStrip(s) == IF s # <<>> /\ Head(s) \in Space THEN LStrip(Tail(s)) ELSE s
RStrip(s) ==
    IF s # <<>> /\ s[Len(s)] \in Space THEN RStrip(SubSeq(s, 1, Len(s) - 1)) ELSE s
Strip(s) == RStrip(LStrip(s))

\* lines 68-72 with the window left as wide as asked for
AddressCandidateUnclipped(text, m) ==
    LET start == m.start - WindowBefore
        end == m.end + WindowAfter
    IN Candidate("address_hint",
                 Strip(Slice(text, Max(0, start), Min(Len(text), end))), start, end)

\* lines 68-72 for one match m of RE_ADDRESS_HINT
AddressCandidate(text, m) ==
    LET start == Max(0, m.start - WindowBefore)
        end == Min(Len(text), m.end + WindowAfter)
    IN Candidate("address_hint", Strip(Slice(text, start, end)), start, end)

\* lines 77-78: the NER labels that are reported, and under which name
EntLabel(l) ==
    CASE l = "PERSON" -> "name"
      [] l \in {"GPE", "LOC"} -> "location"
      [] l = "ORG" -> "organization"
      [] OTHER -> "none"

\* nlp is [loaded, ents]: whether spaCy and its model were loaded (lines
\* 18-25) and, if so, the entities [label_, start_char, end_char] that
\* nlp(text).ents holds; ent.text is the text between the two positions
SpacyCandidates(text, nlp) ==
    LET kept == SelectSeq(nlp.ents, LAMBDA ent : EntLabel(ent.label_) # "none")
    IN [i \in 1..Len(kept) |->
           Candidate(EntLabel(kept[i].label_),
                     Slice(text, kept[i].start_char, kept[i].end_char),
                     kept[i].start_char, kept[i].end_char)]

\* lines 56-72: the candidates of the five patterns
PatternCandidates(text) ==
    LET phones == SelectSeq(MatchCandidates("phone", RE_PHONE, text),
                            LAMBDA c : PhoneAccepted(c.text))
        hints == FindIter(RE_ADDRESS_HINT, text)
    IN MatchCandidates("email", RE_EMAIL, text)
        \o MatchCandidates("account", RE_IBAN, text)
        \o MatchCandidates("date", RE_DATE, text)
        \o phones
        \o [i \in 1..Len(hints) |-> AddressCandidate(text, hints[i])]

\* lines 73-81: the candidates of the NER model or, without it, of the
\* name pattern
NameCandidates(text, nlp) ==
    IF nlp.loaded THEN SpacyCandidates(text, nlp)
    ELSE MatchCandidates("name_heuristic", RE_NAME, text)

\* lines 54-82
find_entities_in_text(text, nlp) ==
    PatternCandidates(text) \o NameCandidates(text, nlp)

\* ------------------------------------------------------------ leaf texts
MaxPhrases == 2
MaxMainLeaves == 2
MaxEnts == 1

\* "Contact: jane.doe@example.com today", "123", "4567",
\* "+1 415-555-2671", "11.22.33", "Am Platz Weg", "DE12ABCD99",
\* "4111 1111 1111 1111" and " "
Phrases ==
    <<<<"C", "o", "n", "t", "a", "c", "t", ":", " ", "j", "a", "n",
        "e", ".", "d", "o", "e", "@", "e", "x", "a", "m", "p", "l",
        "e", ".", "c", "o", "m", " ", "t", "o", "d", "a", "y">>,
      <<"1", "2", "3">>,
      <<"4", "5", "6", "7">>,
      <<"+", "1", " ", "4", "1", "5", "-", "5", "5", "5", "-", "2",
        "6", "7", "1">>,
      <<"1", "1", ".", "2", "2", ".", "3", "3">>,
      <<"A", "m", " ", "P", "l", "a", "t", "z", " ", "W", "e", "g">>,
      <<"D", "E", "1", "2", "A", "B", "C", "D", "9", "9">>,
      <<"4", "1", "1", "1", " ", "1", "1", "1", "1", " ", "1", "1",
        "1", "1", " ", "1", "1", "1", "1">>,
      <<" ">>>>

RECURSIVE Concat(_)
Concat(ss) == IF ss = <<>> THEN <<>> ELSE Head(ss) \o Concat(Tail(ss))

\* n filler characters, which no pattern matches
Filler(n) == [i \in 1..n |-> "~"]

\* the texts of at most MaxPhrases phrases, and each phrase with filler
\* before or after it that is longer than the address window is wide
LeafTexts ==
    {Concat([i \in DOMAIN ps |-> Phrases[ps[i]]]) :
        ps \in UNION {[1..n -> 1..Len(Phrases)] : n \in 0..MaxPhrases}}
    \cup {Filler(b) \o Phrases[p] \o Filler(a) :
             b \in {0, WindowBefore + 1}, a \in {0, WindowAfter + 1},
             p \in 1..Len(Phrases)}

\* the entities nlp(text).ents may hold: at most MaxEnts of them, one
\* after another, each a whole word of the text under some NER label
WordSpans(text) ==
    {se \in (0..Len(text)) \X (0..Len(text)) :
        /\ se[1] < se[2]
        /\ \A j \in (se[1] + 1)..se[2] : text[j] \in Word
        /\ AtWordBoundary(text, se[1])
        /\ AtWordBoundary(text, se[2])}

NerLabels == {"PERSON", "GPE", "LOC", "ORG", "DATE"}

SpacyEnts(text) ==
    LET ents == {[label_ |-> l, start_char |-> se[1], end_char |-> se[2]] :
                    l \in NerLabels, se \in WordSpans(text)}
    IN {q \in UNION {[1..n -> ents] : n \in 0..MaxEnts} :
           \A i \in 1..(Len(q) - 1) : q[i].end_char <= q[i + 1].start_char}

\* ------------------------------------------------------------------ main
\* ''.join(elem.itertext()): the text of elem and of the elements below
\* it, in document order
IterText(T, el) ==
    LET below == SortedSeq({n \in Nodes(T) : el \in AncSelf(T.parent, n)})
    IN Concat([i \in 1..Len(below) |-> T.text[below[i]]])

\* lines 101-109: the record of one candidate
Item(ent, xpath_like) ==
    [entity_name |-> ent.label, text |-> ent.text, xml_path |-> xpath_like,
     offset |-> ent.start, length |-> Len(ent.text)]

\* lines 97-109: the records of one leaf
Items(text, xpath_like, nlp) ==
    IF text = <<>> THEN <<>>
    ELSE LET ents == find_entities_in_text(text, nlp)
         IN [i \in 1..Len(ents) |-> Item(ents[i], xpath_like)]

\* line 115
DedupKey(r) == <<r.xml_path, r.offset, r.text>>

\* the loop of lines 114-118 with a key leaving "seen" when it is met again
RECURSIVE DedupToggle(_, _, _)
DedupToggle(rs, seen, uniq) ==
    IF rs = <<>> THEN uniq
    ELSE IF DedupKey(Head(rs)) \notin seen
         THEN DedupToggle(Tail(rs), seen \cup {DedupKey(Head(rs))}, Append(uniq, Head(rs)))
         ELSE DedupToggle(Tail(rs), seen \ {DedupKey(Head(rs))}, uniq)

\* the loop of lines 114-118 with the label in the key
RECURSIVE DedupLabelled(_, _, _)
DedupLabelled(rs, seen, uniq) ==
    IF rs = <<>> THEN uniq
    ELSE IF <<DedupKey(Head(rs)), Head(rs).entity_name>> \notin seen
         THEN DedupLabelled(Tail(rs),
                            seen \cup {<<DedupKey(Head(rs)), Head(rs).entity_name>>},
                            Append(uniq, Head(rs)))
         ELSE DedupLabelled(Tail(rs), seen, uniq)

\* lines 114-118: "for r in results", from the records rs still to come
RECURSIVE Dedup(_, _, _)
Dedup(rs, seen, uniq) ==
    IF rs = <<>> THEN uniq
    ELSE IF DedupKey(Head(rs)) \notin seen
         THEN Dedup(Tail(rs), seen \cup {DedupKey(Head(rs))}, Append(uniq, Head(rs)))
         ELSE Dedup(Tail(rs), seen, uniq)

\* the document of the leaves with the given texts, two to a paragraph
MainDoc(texts) ==
    LET n == Len(texts)
        T == WordDoc(n, [j \in 1..n |-> 0])
    IN [T EXCEPT !.text = [i \in Nodes(T) |->
                              IF T.tag[i] = WT
                              THEN texts[CHOOSE j \in 1..n : LeafNode(j) = i]
                              ELSE <<>>]]

\* documents of one leaf with any of the texts, and documents of up to
\* MaxMainLeaves leaves of one phrase each
MainDocs ==
    {MainDoc(<<t>>) : t \in LeafTexts}
    \cup {MainDoc([i \in DOMAIN ps |-> Phrases[ps[i]]]) :
             ps \in UNION {[1..n -> 1..Len(Phrases)] : n \in 0..MaxMainLeaves}}

\* the documents read with the NER model loaded: one leaf of one phrase
SpacyDocs == {MainDoc(<<Phrases[p]>>) : p \in 1..Len(Phrases)}

InitMain ==
    /\ \/ xml \in MainDocs /\ USE_SPACY = FALSE
       \/ xml \in SpacyDocs /\ USE_SPACY = TRUE
    /\ orig = xml
    /\ redactions = <<>>
    /\ before = xml
    /\ pc = "main"
    /\ yielded = <<>>
    /\ zin = <<[filename |-> DocumentXml, data |-> XmlBytes(TRUE, xml)]>>
    /\ zout = <<>>
    /\ results = <<>>
    /\ unique = <<>>
    /\ walk = NoWalk

\* lines 96-109: one iteration of "for elem, xpath_like in
\* get_text_nodes_and_paths(root)"
Scan ==
    /\ pc = "main"
    /\ Len(yielded) < Len(TextNodes(xml))
    /\ LET elem == TextNodes(xml)[Len(yielded) + 1]
           xpath_like == XPathLike(xml, elem)
           text == IterText(xml, elem)
       IN /\ yielded' = Append(yielded, [elem |-> elem, xml_path |-> xpath_like])
          /\ \E ents \in (IF USE_SPACY THEN SpacyEnts(text) ELSE {<<>>}) :
                results' = results \o Items(text, xpath_like,
                                            [loaded |-> USE_SPACY, ents |-> ents])
    /\ UNCHANGED <<xml, orig, redactions, before, pc, zin, zout, unique, USE_SPACY, walk>>

\* lines 111-120: the records are deduplicated and printed
PrintJson ==
    /\ pc = "main"
    /\ Len(yielded) = Len(TextNodes(xml))
    /\ unique' = Dedup(results, {}, <<>>)
    /\ pc' = "printed"
    /\ UNCHANGED <<xml, orig, redactions, before, yielded, zin, zout, results, USE_SPACY, walk>>

NextMain == Scan \/ PrintJson

SpecMain == InitMain /\ [][NextMain]_vars

\* =====================================================================
\* Properties of the detection run
\* =====================================================================
\* record i of the collected list has no earlier record of the same
\* address, offset and text
FirstOfItsKey(i) ==
    \A j \in 1..(i - 1) :
        \/ results[j].xml_path # results[i].xml_path
        \/ results[j].offset # results[i].offset
        \/ results[j].text # results[i].text

\* C12: deduplication keeps exactly the records that no earlier record
\* of the list matches in (xml_path, offset, text), whatever their labels,
\* and keeps them in the order they had in the list
DedupKeepsFirst ==
    pc = "printed" =>
        LET kept == SortedSeq({i \in 1..Len(results) : FirstOfItsKey(i)})
        IN unique = [k \in 1..Len(kept) |-> results[kept[k]]]

\* two records that differ in the label alone were collected, the second
\* was dropped and a record collected after them was kept
DedupKeepsFirstWitness ==
    /\ pc = "printed"
    /\ \E i, j, k \in 1..Len(results) :
          /\ i < j /\ j < k
          /\ results[j] = [results[i] EXCEPT !.entity_name = results[j].entity_name]
          /\ results[j].entity_name # results[i].entity_name
          /\ FirstOfItsKey(i)
          /\ FirstOfItsKey(k)
          /\ \A u \in 1..Len(unique) : unique[u] # results[j]

\* C13: deduplication is idempotent: run on its own output it gives that
\* output again, the same records in the same order
DedupIdempotent ==
    pc = "printed" => Dedup(unique, {}, <<>>) = unique

\* deduplication dropped two records of one key and kept others
DedupIdempotentWitness ==
    /\ pc = "printed"
    /\ Len(unique) >= 2
    /\ Len(results) >= Len(unique) + 2
    /\ \E i \in 1..Len(results) :
          Cardinality({j \in 1..Len(results) :
                          DedupKey(results[j]) = DedupKey(results[i])}) >= 3

\* the text main reads from the i-th leaf it has scanned
ScannedText(i) == IterText(xml, yielded[i].elem)

\* what nlp can be for a text: not loaded, or loaded with any entities
NlpFor(text) ==
    IF USE_SPACY THEN {[loaded |-> TRUE, ents |-> e] : e \in SpacyEnts(text)}
    ELSE {[loaded |-> FALSE, ents |-> <<>>]}

\* candidate c lies inside the text and is not empty
InBounds(c, text) == 0 <= c.start /\ c.start < c.end /\ c.end <= Len(text)

\* C14: every candidate (label, text, start, end) that
\* find_entities_in_text returns for the leaf text just scanned, from
\* the patterns and from the NER model or the name pattern, lies inside
\* the text and is not empty: 0 <= start < end <= len(text), the
\* clipped window of an address_hint included
CandidateInBounds ==
    (pc = "main" /\ yielded # <<>>) =>
        LET text == ScannedText(Len(yielded))
            found == PatternCandidates(text)
        IN /\ \A k \in 1..Len(found) : InBounds(found[k], text)
           /\ \A nlp \in NlpFor(text) :
                 LET names == NameCandidates(text, nlp)
                 IN \A k \in 1..Len(names) : InBounds(names[k], text)

\* a keyword was matched more than 30 characters into the text and less
\* than 60 before its end: the window starts inside the text and is
\* clipped at the end, and its record was collected
CandidateInBoundsWitness ==
    /\ pc = "printed"
    /\ \E i \in 1..Len(yielded) :
          LET hints == FindIter(RE_ADDRESS_HINT, ScannedText(i))
          IN \E h \in 1..Len(hints) :
                /\ hints[h].start > 30
                /\ hints[h].end + 60 > Len(ScannedText(i))
                /\ \E k \in 1..Len(results) :
                      /\ results[k].entity_name = "address_hint"
                      /\ results[k].offset = hints[h].start - 30

\* "Contact: jane.doe@example.com today" and "jane.doe@example.com"
ContactText ==
    <<"C", "o", "n", "t", "a", "c", "t", ":", " ", "j", "a", "n", "e",
      ".", "d", "o", "e", "@", "e", "x", "a", "m", "p", "l", "e", ".",
      "c", "o", "m", " ", "t", "o", "d", "a", "y">>
JaneDoe ==
    <<"j", "a", "n", "e", ".", "d", "o", "e", "@", "e", "x", "a", "m",
      "p", "l", "e", ".", "c", "o", "m">>

\* the records collected hold an email record of the given length
EmailRecordOfLength(i, n) ==
    \E k \in 1..Len(results) :
        /\ results[k].entity_name = "email"
        /\ results[k].text = JaneDoe
        /\ results[k].xml_path = yielded[i].xml_path
        /\ results[k].offset = 9
        /\ results[k].length = n

\* C15 as stated: for the leaf text "Contact: jane.doe@example.com today"
\* detection yields an email record with the text "jane.doe@example.com"
\* at offset 9 and length 21
ContactEmailLength21 ==
    \A i \in 1..Len(yielded) :
        ScannedText(i) = ContactText => EmailRecordOfLength(i, 21)

\* C15, amended: for the leaf text "Contact: jane.doe@example.com today"
\* detection yields an email record with the text "jane.doe@example.com"
\* at offset 9 and length 20, the number of characters of that text
ContactEmailLength20 ==
    \A i \in 1..Len(yielded) :
        ScannedText(i) = ContactText => EmailRecordOfLength(i, 20)

ContactEmailWitness ==
    /\ pc = "printed"
    /\ Len(yielded) = 1
    /\ ScannedText(1) = ContactText
    /\ \E k \in 1..Len(unique) :
          unique[k].entity_name = "email" /\ unique[k].text = JaneDoe

\* the leaf text a collected record was found in
TextOfRecord(r) ==
    ScannedText(CHOOSE i \in 1..Len(yielded) : yielded[i].xml_path = r.xml_path)

\* text[a:b] for a >= 0
PySlice(text, a, b) == SubSeq(text, a + 1, Min(Len(text), b))

\* C17: for every record detection emits, the characters of the leaf's
\* text at [offset, offset + length) are the record's text
RecordSpanIsText ==
    \A k \in 1..Len(results) :
        PySlice(TextOfRecord(results[k]), results[k].offset,
                results[k].offset + results[k].length) = results[k].text

\* the phone candidates of a text: the matches of the phone pattern
PhoneMatches(text) == FindIter(RE_PHONE, text)

\* a phone record for the match m of the i-th scanned leaf was collected
PhoneReported(i, m) ==
    \E k \in 1..Len(results) :
        /\ results[k].entity_name = "phone"
        /\ results[k].xml_path = yielded[i].xml_path
        /\ results[k].offset = m.start
        /\ results[k].text = Slice(ScannedText(i), m.start, m.end)

\* C19: a match of the phone pattern is reported as a phone record iff
\* it holds 6 to 15 digits and does not itself match the email pattern;
\* the leaf "123" gives no phone record and the leaf "+1 415-555-2671"
\* gives one with that text
PhoneFilter ==
    \A i \in 1..Len(yielded) :
        LET text == ScannedText(i)
            ms == PhoneMatches(text)
        IN /\ \A j \in 1..Len(ms) :
                 LET s == Slice(text, ms[j].start, ms[j].end)
                     digits == Cardinality({p \in 1..Len(s) : s[p] \in Digit})
                 IN PhoneReported(i, ms[j])
                       <=> (6 <= digits /\ digits <= 15 /\ ~ReMatch(RE_EMAIL, s))
           /\ text = <<"1", "2", "3">> =>
                 \A k \in 1..Len(results) :
                     \/ results[k].entity_name # "phone"
                     \/ results[k].xml_path # yielded[i].xml_path
           /\ text = <<"+", "1", " ", "4", "1", "5", "-", "5", "5", "5", "-", "2", "6", "7", "1">> =>
                 PhoneReported(i, [start |-> 0, end |-> 15])

\* one leaf held a candidate that was reported and one that was rejected
\* for having fewer than 6 digits
PhoneFilterWitness ==
    /\ pc = "printed"
    /\ \E i \in 1..Len(yielded) :
          LET ms == PhoneMatches(ScannedText(i))
          IN \E a, b \in 1..Len(ms) :
                /\ PhoneReported(i, ms[a])
                /\ ~PhoneReported(i, ms[b])
                /\ Len(DigitsOf(Slice(ScannedText(i), ms[b].start, ms[b].end))) < 6

\* =====================================================================
\* Properties of the enumerator's step indices
\* =====================================================================
\* the elements an address has a step for: the ancestors of el below the
\* root element and el itself, from the top down
StepNodes(T, el) == SortedSeq({a \in AncSelf(T.parent, el) : T.parent[a] # 0})

\* the children of a's parent that bear a's tag name
SameTag(T, a) ==
    {s \in Children(T, T.parent[a]) : T.tag[s].local = T.tag[a].local}

\* C16: in every address the enumerator yields, the index of each step is
\* the 1-based rank of the step's element among the children of its
\* parent that bear the same tag, these children are numbered 1..k
\* without gap or repeat, and the step 'w:tag[index]' of the consumer,
\* taken from the parent, selects that very element
StepIndexIsSameTagRank ==
    \A y \in 1..Len(yielded) :
        LET chain == StepNodes(xml, yielded[y].elem)
            steps == Tail(yielded[y].xml_path)
        IN /\ Len(steps) = Len(chain)
           /\ \A k \in 1..Len(chain) :
                 LET a == chain[k]
                 IN /\ steps[k].idx = Cardinality({s \in SameTag(xml, a) : s <= a})
                    /\ {SameTagIndex(xml, s) : s \in SameTag(xml, a)}
                          = 1..Cardinality(SameTag(xml, a))
                    /\ XPathStep(xml, {xml.parent[a]}, steps[k]) = {a}

\* =====================================================================
\* Properties of the walk, step by step
\* =====================================================================
\* C18: the walk of a request terminates.  An iteration of the while
\* loop is only made with characters still to blank and a leaf at hand,
\* every iteration moves on to the next leaf in document order, so the
\* target and each leaf after it are visited at most once; and under the
\* fair specification every batch runs to completion, the output written
WalkTerminates ==
    /\ [][(pc = "while" /\ pc' = "while") =>
            /\ walk.remaining > 0
            /\ walk.idx <= Len(TextNodes(xml))
            /\ walk'.idx = walk.idx + 1
            /\ walk'.start_idx = walk.start_idx]_vars
    /\ [][(pc = "while" /\ ~(walk.remaining > 0 /\ walk.idx <= Len(TextNodes(xml)))) =>
            (pc' = "redact" /\ xml' = xml)]_vars
    /\ [](pc = "while" =>
            /\ walk.start_idx <= walk.idx
            /\ walk.idx <= Len(TextNodes(xml)) + 1)
    /\ (pc = "while") ~> (pc = "redact")
    /\ <>(pc = "saved")

\* a walk that began at the first of three leaves has visited all three
\* and has characters left to blank
WalkTerminatesWitness ==
    /\ pc = "while"
    /\ Len(TextNodes(xml)) = 3
    /\ walk.start_idx = 1
    /\ walk.idx = 4
    /\ walk.remaining > 0
    /\ walk.done = MaxBatch

====
